---- MODULE Spec2Model ----
(***************************************************************************)
(* Adaptive arclength of a cubic Bezier segment, as implemented by the     *)
(* recursive drivers my_arclen / my_arclen7 / my_arclen9 / my_arclen11 of   *)
(* examples/cubic_arclen.rs.                                               *)
(*                                                                         *)
(* The recursion is unrolled into an explicit call stack.  An f64 that is  *)
(* compared or halved (the accuracy budget, an error estimate) is one of    *)
(* "NaN", "Inf" or a natural number n standing for n * 2^-1074, the        *)
(* smallest positive f64, so that `accuracy * 0.5` rounds as the hardware  *)
(* does.  The geometry that an estimator reads is carried as IEEE value     *)
(* classes (NaN / Zero / Pos / Inf), which is what decides whether an       *)
(* estimate is 0, NaN, infinite or an ordinary positive number; the         *)
(* magnitude of an ordinary positive estimate is taken from a table that    *)
(* is part of the input curve.                                             *)
(***************************************************************************)
EXTENDS Integers, Sequences, FiniteSets, TLC

VARIABLES
    fn,      \* which of the four drivers main calls
    curve,   \* the input curve
    eps,     \* the accuracy of the top-level call
    c0,      \* the value of the counter before the call
    pc,      \* "main", "running", "done"
    stack,   \* the activation records of the recursion, innermost last
    count,   \* `*count`
    result,  \* the value returned by the top-level call
    hist,    \* history of the run (not program state)
    runs     \* results of whole runs, for comparing runs with one another

vars == <<fn, curve, eps, c0, pc, stack, count, result, hist, runs>>

----------------------------------------------------------------------------
(* Bounds of the model *)

\* subnormal-range accuracies 0 .. MaxSmallEps (in units of 2^-1074)
MaxSmallEps == 3
\* ordinary accuracies k * 2^16 units, k in 1 .. MaxBigEps
MaxBigEps == 3
\* the estimate of every segment down to this level is chosen freely
FreeLvl == 1
\* initial values of the shared leaf counter: 0 .. MaxC0
MaxC0 == 1
\* modelling cap on the recursion depth a frame may reach
StackLimit == 18

(* Program constants *)

\* `depth == 16`
MaxDepth == 16

----------------------------------------------------------------------------
(* Small arithmetic helpers *)

RECURSIVE Pow(_, _)
Pow(b, n) == IF n = 0 THEN 1 ELSE b * Pow(b, n - 1)

Max(a, b) == IF a >= b THEN a ELSE b

\* x divided by b^n, rounded down
RECURSIVE DivPow(_, _, _)
DivPow(x, b, n) == IF n = 0 \/ x = 0 THEN x ELSE DivPow(x \div b, b, n - 1)

----------------------------------------------------------------------------
(* IEEE-754 value classes of non-negative f64 values *)

Classes == {"NaN", "Zero", "Pos", "Inf"}

\* `a + b`
CAdd(a, b) ==
    [x \in Classes, y \in Classes |->
        IF x = "NaN" \/ y = "NaN" THEN "NaN"
        ELSE IF x = "Inf" \/ y = "Inf" THEN "Inf"
        ELSE IF x = "Zero" /\ y = "Zero" THEN "Zero"
        ELSE "Pos"][a, b]

\* `a * b`: 0 * inf is NaN
CMul(a, b) ==
    [x \in Classes, y \in Classes |->
        IF x = "NaN" \/ y = "NaN" THEN "NaN"
        ELSE IF {x, y} = {"Zero", "Inf"} THEN "NaN"
        ELSE IF x = "Inf" \/ y = "Inf" THEN "Inf"
        ELSE IF x = "Zero" \/ y = "Zero" THEN "Zero"
        ELSE "Pos"][a, b]

\* `a / b`: 0 / 0 and inf / inf are NaN, x / 0 is inf
CDiv(a, b) ==
    [x \in Classes, y \in Classes |->
        IF x = "NaN" \/ y = "NaN" THEN "NaN"
        ELSE IF x = "Zero" /\ y = "Zero" THEN "NaN"
        ELSE IF x = "Inf" /\ y = "Inf" THEN "NaN"
        ELSE IF y = "Zero" \/ x = "Inf" THEN "Inf"
        ELSE IF x = "Zero" \/ y = "Inf" THEN "Zero"
        ELSE "Pos"][a, b]

\* `a.powi(n)`, n >= 1
RECURSIVE CPowi(_, _)
CPowi(a, n) == IF n = 1 THEN a ELSE CMul(a, CPowi(a, n - 1))

----------------------------------------------------------------------------
(* An estimate is NaN, +infinity or a finite n * 2^-1074; an accuracy is   *)
(* always finite and is carried as the number n itself.                    *)

NaN == [k |-> "NaN", v |-> 0]

Inf == [k |-> "Inf", v |-> 0]

Fin(n) == [k |-> "Fin", v |-> n]

\* variant: `x <= accuracy`
FLe(x, accuracy) == x.k = "Fin" /\ x.v <= accuracy

\* variant: `!(x >= accuracy)`, which is true of NaN
FLtNotGe(x, accuracy) == ~(x.k = "Inf" \/ (x.k = "Fin" /\ x.v >= accuracy))

\* variant: `x != accuracy`
FLtNe(x, accuracy) == ~(x.k = "Fin" /\ x.v = accuracy)

\* `x < accuracy` on f64: false when x is NaN or +infinity
FLt(x, accuracy) == x.k = "Fin" /\ x.v < accuracy

\* `x + y` on non-negative f64 values
FAdd(x, y) ==
    IF x.k = "NaN" \/ y.k = "NaN" THEN NaN
    ELSE IF x.k = "Inf" \/ y.k = "Inf" THEN Inf
    ELSE Fin(x.v + y.v)

\* variant: the budget is passed on unhalved
HalfSkipped(a) == a

\* variant: `accuracy * 2.0`
HalfDoubled(a) == 2 * a

\* variant: `accuracy * 0.25`
HalfQuarter(a) == a \div 4

\* `accuracy * 0.5`: exact when the result is representable, otherwise
\* rounded to nearest, ties to even (only an odd multiple of 2^-1074 rounds)
Half(a) ==
    IF a % 2 = 0 THEN a \div 2
    ELSE IF ((a - 1) \div 2) % 2 = 0 THEN (a - 1) \div 2 ELSE (a + 1) \div 2

----------------------------------------------------------------------------
(* Curve segments.  A segment is the part of the input curve over          *)
(* [idx / 2^lvl, (idx+1) / 2^lvl].                                         *)

Root == [lvl |-> 0, idx |-> 0]

\* CubicBez::subdivide: de Casteljau split at t = 0.5
Subdivide(c) ==
    << [lvl |-> c.lvl + 1, idx |-> 2 * c.idx],
       [lvl |-> c.lvl + 1, idx |-> 2 * c.idx + 1] >>

\* The ancestor of segment c at level l <= c.lvl
Ancestor(c, l) == [lvl |-> l, idx |-> c.idx \div Pow(2, c.lvl - l)]

\* Value classes of the quantities the estimators read from a segment:
\*   lc  = (p3 - p0).hypot()                       chord
\*   lp  = sum of the three control-edge lengths   control polygon
\*   n3  = d3.eval(0.5).hypot(), n2 = d2.eval(0.5).hypot()
\*   ds2 = d.start().hypot2(), dot = d.start().dot(dd), dd2 = dd.hypot2()
\* "point": all four control points equal.  "line": collinear, evenly
\* spaced, p3 /= p0.  "curved": any other curve (with d.start().dot(dd) >= 0),
\* closed (p3 = p0) or not.
Geom(crv, c) ==
    CASE crv.geom = "point" ->
           [lc |-> "Zero", lp |-> "Zero", n3 |-> "Zero", n2 |-> "Zero",
            ds2 |-> "Zero", dot |-> "Zero", dd2 |-> "Zero"]
      [] crv.geom = "line" ->
           [lc |-> "Pos", lp |-> "Pos", n3 |-> "Zero", n2 |-> "Zero",
            ds2 |-> "Zero", dot |-> "Zero", dd2 |-> "Zero"]
      [] OTHER ->
           [lc |-> IF crv.closed /\ c.lvl = 0 THEN "Zero" ELSE "Pos",
            lp |-> "Pos", n3 |-> "Pos", n2 |-> "Pos",
            ds2 |-> "Pos", dot |-> "Pos", dd2 |-> "Pos"]

\* Magnitude (units of 2^-1074) of an ordinary positive estimate of segment
\* c: free down to level crv.free, then shrinking 32-fold per level; on a
\* curve with a cusp at t = 0 the estimate of a segment that starts at the
\* cusp does not shrink
Mag(crv, c) ==
    IF crv.cusp /\ c.idx = 0 THEN crv.mag[Root]
    ELSE IF c.lvl <= crv.free THEN crv.mag[c]
    ELSE DivPow(crv.mag[Ancestor(c, crv.free)], 32, c.lvl - crv.free)

\* The f64 an estimate of class k stands for
Value(k, crv, c) ==
    CASE k = "NaN" -> NaN
      [] k = "Inf" -> Inf
      [] k = "Zero" -> Fin(0)
      [] OTHER -> Fin(Mag(crv, c))

----------------------------------------------------------------------------
(* Error estimators *)

\* variant: `5.0 * d2.eval(0.5).hypot() + lmi`
est_gauss5_error_sum(crv, c) ==
    LET g == Geom(crv, c)
        lmi == CDiv("Pos", CAdd(g.lp, g.lc))
        k == CMul(CMul("Pos",
                       CPowi(CAdd(CMul(g.n3, lmi),
                                  CAdd(CMul("Pos", g.n2), lmi)), 5)),
                  g.lp)
    IN Value(k, crv, c)

est_gauss5_error(crv, c) ==
    LET g == Geom(crv, c)
        lmi == CDiv("Pos", CAdd(g.lp, g.lc))
        k == CMul(CMul("Pos",
                       CPowi(CAdd(CMul(g.n3, lmi),
                                  CMul(CMul("Pos", g.n2), lmi)), 5)),
                  g.lp)
    IN Value(k, crv, c)

cubic_errnorm(g) ==
    CAdd(CAdd(g.ds2, g.dot), CMul(g.dd2, "Pos"))

est_gauss7_error(crv, c) ==
    LET g == Geom(crv, c)
        k == CMul(CMul("Pos",
                       CPowi(CDiv(CMul("Pos", cubic_errnorm(g)),
                                  CPowi(g.lc, 2)), 6)),
                  g.lp)
    IN Value(k, crv, c)

est_gauss9_error(crv, c) ==
    LET g == Geom(crv, c)
        k == CMul(CMul("Pos",
                       CPowi(CDiv(CMul("Pos", cubic_errnorm(g)),
                                  CPowi(g.lc, 2)), 8)),
                  g.lp)
    IN Value(k, crv, c)

----------------------------------------------------------------------------
(* Leaf quadrature.  Lengths are in units of 2^-17 of the unit length.     *)
(* A point has length 0; on an evenly spaced straight segment every rule   *)
(* returns the chord; on a curved segment an n-node rule returns the       *)
(* segment's share of the length less a quadrature defect that shrinks     *)
(* with the level and with n.  The defect stands for the rounding and      *)
(* truncation of the rule; sums of lengths are exact in the model.         *)

Share(crv, c) == DivPow(crv.len, 2, c.lvl)

Defect(crv, c, n) ==
    IF crv.geom = "curved" THEN DivPow(4096, 8, c.lvl) \div n ELSE 0

gauss_arclen_5(crv, c) == Share(crv, c) - Defect(crv, c, 5)

gauss_arclen_7(crv, c) == Share(crv, c) - Defect(crv, c, 7)

gauss_arclen_9(crv, c) == Share(crv, c) - Defect(crv, c, 9)

gauss_arclen_11(crv, c) == Share(crv, c) - Defect(crv, c, 11)

----------------------------------------------------------------------------
(* The four recursive drivers differ in estimator and leaf rule only *)

Fns == {"my_arclen", "my_arclen7", "my_arclen9", "my_arclen11"}

Est(f, crv, c) ==
    CASE f = "my_arclen" -> est_gauss5_error(crv, c)
      [] f = "my_arclen7" -> est_gauss7_error(crv, c)
      [] OTHER -> est_gauss9_error(crv, c)

Leaf(f, crv, c) ==
    CASE f = "my_arclen" -> gauss_arclen_5(crv, c)
      [] f = "my_arclen7" -> gauss_arclen_7(crv, c)
      [] f = "my_arclen9" -> gauss_arclen_9(crv, c)
      [] OTHER -> gauss_arclen_11(crv, c)

\* variant: `depth == 17`
DepthCappedLate(depth) == depth = MaxDepth + 1

\* `depth == 16`
DepthCapped(depth) == depth = MaxDepth

\* variant: `*count += 2`
BumpTwice(n) == n + 2

\* `*count += 1`
Bump(n) == n + 1

\* variant: no depth test
AcceptsNoCap(f, crv, c, accuracy, depth) == FLt(Est(f, crv, c), accuracy)

\* `depth == 16 || est_..._error(c) < accuracy`
Accepts(f, crv, c, accuracy, depth) ==
    DepthCapped(depth) \/ FLt(Est(f, crv, c), accuracy)

----------------------------------------------------------------------------
(* Inputs *)

Nodes(l) ==
    UNION { { [lvl |-> a, idx |-> i] : i \in 0 .. (Pow(2, a) - 1) } : a \in 0 .. l }

\* estimates a curved segment may get: 0 (underflow), 2^16, 2^22
MagVals == {0, Pow(2, 16), Pow(2, 22)}

NoMag == [n \in Nodes(0) |-> 0]

\* all four control points equal
PointCurve ==
    [geom |-> "point", closed |-> TRUE, cusp |-> FALSE, free |-> 0,
     mag |-> NoMag, len |-> 0]

\* p_i = p0 + i * (p3 - p0) / 3 with p3 /= p0 (the table gives the value an
\* ordinary positive estimate of it would have)
LineCurve ==
    [geom |-> "line", closed |-> FALSE, cusp |-> FALSE, free |-> 0,
     mag |-> [n \in Nodes(0) |-> Pow(2, 22)], len |-> 3 * Pow(2, 17)]

\* curves with any estimate on the segments down to level FreeLvl
FreeCurves ==
    { [geom |-> "curved", closed |-> FALSE, cusp |-> FALSE, free |-> FreeLvl,
       mag |-> m, len |-> 5 * Pow(2, 17)] :
      m \in [Nodes(FreeLvl) -> MagVals] }

\* a closed curve (p3 = p0) and a curve with a cusp at its start point
OddCurves ==
    { [geom |-> "curved", closed |-> b, cusp |-> ~b, free |-> 0,
       mag |-> [n \in Nodes(0) |-> Pow(2, 22)], len |-> 5 * Pow(2, 17)] :
      b \in BOOLEAN }

CurvedCurves == FreeCurves \cup OddCurves

SmallEps == 0 .. MaxSmallEps

BigEps == { k * Pow(2, MaxDepth) : k \in 1 .. MaxBigEps }

\* runs that stay shallow: the closed, the cusp and the straight curve with
\* each of the four functions and each initial counter, and every table of
\* estimates with the function main calls
ShallowInputs ==
    { [fn |-> f, curve |-> crv, eps |-> e, c0 |-> n] :
      f \in Fns, crv \in OddCurves \cup {LineCurve}, e \in BigEps,
      n \in 0 .. MaxC0 }
    \cup
    { [fn |-> "my_arclen9", curve |-> crv, eps |-> e, c0 |-> 0] :
      crv \in FreeCurves, e \in BigEps }

\* runs with an accuracy in the subnormal range, where halving rounds: a
\* straight segment, and curves of which only the whole has a positive estimate
SubnormalInputs ==
    { [fn |-> "my_arclen", curve |-> LineCurve, eps |-> e, c0 |-> 0] :
      e \in SmallEps }
    \cup
    { [fn |-> "my_arclen", curve |-> crv, eps |-> e, c0 |-> 0] :
      crv \in { k \in FreeCurves :
                  \A n \in DOMAIN k.mag : (k.mag[n] = 0) = (n /= Root) },
      e \in SmallEps \ {0, 1} }

\* the run on the degenerate curve, which subdivides every branch down to
\* the depth cap
DeepInputs ==
    { [fn |-> "my_arclen", curve |-> PointCurve, eps |-> 1, c0 |-> 0] }

Inputs == ShallowInputs \cup SubnormalInputs \cup DeepInputs

\* inputs of the runs checked for termination: of the tables of estimates,
\* those that answer 0 or 2^22 on each segment
LiveInputs ==
    { i \in ShallowInputs :
        /\ i.c0 = 0
        /\ i.curve \in FreeCurves =>
              /\ i.eps = Pow(2, MaxDepth)
              /\ \A n \in DOMAIN i.curve.mag : i.curve.mag[n] /= Pow(2, 16) }

\* inputs of the runs compared with one another
FnInputs ==
    { i \in ShallowInputs : i.c0 = 0 /\ i.fn \in {"my_arclen", "my_arclen9"} }

----------------------------------------------------------------------------
(* The state machine *)

NoRet == [len |-> 0, n |-> 0]

Frame(c, accuracy, depth) ==
    [c |-> c, accuracy |-> accuracy, depth |-> depth, at |-> "enter",
     lhs |-> NoRet]

Top == stack[Len(stack)]

Pop(stk) == SubSeq(stk, 1, Len(stk) - 1)

\* `a + b` of two returned lengths; n counts the leaf estimates summed
Sum(a, b) == [len |-> a.len + b.len, n |-> a.n + b.n]

\* Return v to the caller on top of stk: the caller either goes on to its
\* second recursive call or returns the sum to its own caller.
RECURSIVE Deliver(_, _)
Deliver(stk, v) ==
    IF stk = << >> THEN [stack |-> << >>, result |-> v, done |-> TRUE]
    ELSE LET p == stk[Len(stk)] IN
         IF p.at = "left"
         THEN [stack |-> Append([stk EXCEPT ![Len(stk)] =
                                     [p EXCEPT !.at = "right", !.lhs = v]],
                                Frame(Subdivide(p.c)[2], Half(p.accuracy),
                                      p.depth + 1)),
               result |-> NoRet, done |-> FALSE]
         ELSE Deliver(Pop(stk), Sum(p.lhs, v))

\* main before the call: `let mut count = 0;`
Start(I) ==
    /\ \E i \in I :
         /\ fn = i.fn
         /\ curve = i.curve
         /\ eps = i.eps
         /\ c0 = i.c0
         /\ count = i.c0
    /\ pc = "main"
    /\ stack = << >>
    /\ result = NoRet
    /\ hist = [splits |-> 0, budget |-> 0, err |-> Fin(0), forced |-> FALSE,
               lo |-> MaxDepth + 1, hi |-> 0]
    /\ runs = << >>

Init == Start(Inputs)

\* main: `my_arclen9(c, accuracy, 0, &mut count)`
Call ==
    /\ pc = "main"
    /\ stack' = << Frame(Root, eps, 0) >>
    /\ pc' = "running"
    /\ UNCHANGED <<fn, curve, eps, c0, count, result, hist, runs>>

\* the `if` branch: count the leaf and return its quadrature
Accept ==
    /\ pc = "running"
    /\ Top.at = "enter"
    /\ Accepts(fn, curve, Top.c, Top.accuracy, Top.depth)
    /\ count' = Bump(count)
    /\ LET r == Deliver(Pop(stack), [len |-> Leaf(fn, curve, Top.c), n |-> 1])
           e == Est(fn, curve, Top.c)
       IN /\ stack' = r.stack
          /\ result' = r.result
          /\ pc' = IF r.done THEN "done" ELSE "running"
          /\ hist' = [hist EXCEPT
                        !.budget = @ + Top.accuracy,
                        !.err = FAdd(@, e),
                        !.forced = @ \/ ~FLt(e, Top.accuracy),
                        !.lo = IF Top.depth < @ THEN Top.depth ELSE @,
                        !.hi = Max(@, Top.depth)]
    /\ UNCHANGED <<fn, curve, eps, c0, runs>>

\* the `else` branch: subdivide and make the first recursive call
Split ==
    /\ pc = "running"
    /\ Top.at = "enter"
    /\ ~Accepts(fn, curve, Top.c, Top.accuracy, Top.depth)
    /\ Top.depth < StackLimit
    /\ stack' = Append([stack EXCEPT ![Len(stack)].at = "left"],
                       Frame(Subdivide(Top.c)[1], Half(Top.accuracy),
                             Top.depth + 1))
    /\ hist' = [hist EXCEPT !.splits = @ + 1]
    /\ UNCHANGED <<fn, curve, eps, c0, pc, count, result, runs>>

Next == Call \/ Accept \/ Split

Spec == Init /\ [][Next]_vars

\* the recursion is sequential code: a call that can take a step takes it
InitLive == Start(LiveInputs)

FairSpec == InitLive /\ [][Next]_vars /\ WF_vars(Next)

TypeOK ==
    /\ pc \in {"main", "running", "done"}
    /\ count >= c0
    /\ (pc = "running") = (stack /= << >>)

----------------------------------------------------------------------------
(* The drivers as the recursive functions they are.  A run returns the     *)
(* length, the number of leaves counted, the accepted leaves and the        *)
(* segments it subdivided.                                                  *)

RECURSIVE Run(_, _, _, _, _)
Run(f, crv, c, accuracy, depth) ==
    IF Accepts(f, crv, c, accuracy, depth)
    THEN [len |-> Leaf(f, crv, c), n |-> 1,
          leaves |-> {c}, splits |-> {},
          forced |-> ~FLt(Est(f, crv, c), accuracy)]
    ELSE LET cs == Subdivide(c)
             l == Run(f, crv, cs[1], Half(accuracy), depth + 1)
             r == Run(f, crv, cs[2], Half(accuracy), depth + 1)
         IN [len |-> l.len + r.len, n |-> l.n + r.n,
             leaves |-> l.leaves \cup r.leaves,
             splits |-> {c} \cup l.splits \cup r.splits,
             forced |-> l.forced \/ r.forced]

\* accuracies a second run of the same curve is given
FinerEps == BigEps \cup { k * Pow(2, MaxDepth - 1) : k \in 1 .. MaxBigEps }

InitFn == Start(FnInputs)

\* Run the driver on the curve with accuracy eps, on each half of the curve
\* with accuracy eps / 2 (eps is even, so the half is exact), and on the
\* curve with an accuracy e1 <= eps; every run starts at depth 0.
Eval ==
    /\ pc = "main"
    /\ \E e1 \in FinerEps :
         /\ e1 <= eps
         /\ runs' = [whole |-> Run(fn, curve, Root, eps, 0),
                     left  |-> Run(fn, curve, Subdivide(Root)[1], eps \div 2, 0),
                     right |-> Run(fn, curve, Subdivide(Root)[2], eps \div 2, 0),
                     e1    |-> e1,
                     finer |-> Run(fn, curve, Root, e1, 0)]
    /\ pc' = "done"
    /\ result' = [len |-> runs'.whole.len, n |-> runs'.whole.n]
    /\ count' = count + runs'.whole.n
    /\ UNCHANGED <<fn, curve, eps, c0, stack, hist>>

NextFn == Eval

SpecFn == InitFn /\ [][NextFn]_vars

\* The call stack computes the recursive function
StackIsRun ==
    (pc = "done" /\ runs = << >> /\ hist.splits < 100) =>
        LET r == Run(fn, curve, Root, eps, 0)
        IN /\ result = [len |-> r.len, n |-> r.n]
           /\ count = c0 + r.n
           /\ hist.splits = Cardinality(r.splits)
           /\ hist.forced = r.forced

----------------------------------------------------------------------------
(* Properties *)

Done == pc = "done"

Leaves == count - c0

\* a call is about to evaluate its `if` condition
Entering == pc = "running" /\ Top.at = "enter"

\* C1: every top-level call started at depth 0 eventually returns, whatever
\* the estimator answers (also one that is never below the budget): the run
\* reaches the state in which main holds the returned value, and stays there.
Terminates == <>[]Done

\* a run that returned after a branch on which no estimate was below its
\* budget had been followed down to the depth cap
TerminatedByCap == Done /\ hist.forced /\ hist.hi = MaxDepth /\ Leaves > MaxDepth

\* C8: every call has a depth in 0 .. 16, and a completed top-level call has
\* accepted between 1 and 2^16 leaves.
DepthBound ==
    /\ \A i \in DOMAIN stack : stack[i].depth \in 0 .. 16
    /\ Done => (Leaves >= 1 /\ Leaves <= 65536)

FullTree == Done /\ Leaves = 65536 /\ hist.hi = 16

\* C10: the counter goes up by exactly 1 when a call accepts, is unchanged
\* when a call subdivides, never decreases, and when the top-level call
\* returns it has grown by the number of leaf estimates summed into the result.
LeafCounter ==
    /\ [][ /\ count' >= count
           /\ (Entering /\ hist'.splits = hist.splits) => count' = count + 1
           /\ (Entering /\ hist'.splits /= hist.splits) => count' = count
         ]_vars
    /\ [](Done => Leaves = result.n)

CountedSeveral == Done /\ c0 > 0 /\ Leaves >= 3 /\ result.n = Leaves

\* the sum of the lengths stored in frames from+1 .. to of the stack
RECURSIVE LhsSum(_, _)
LhsSum(from, to) ==
    IF to <= from THEN 0 ELSE stack[to].lhs.len + LhsSum(from, to - 1)

\* the innermost caller below the top frame that still waits for its first
\* recursive call, 0 if there is none
WaitingCaller ==
    LET W == { i \in 1 .. (Len(stack) - 1) : stack[i].at = "left" }
    IN IF W = {} THEN 0 ELSE CHOOSE i \in W : \A j \in W : j <= i

\* b is the f64 product a * 0.5
IsHalf(a, b) ==
    \/ 2 * b = a
    \/ a % 2 = 1 /\ b % 2 = 0 /\ (2 * b = a - 1 \/ 2 * b = a + 1)

\* the frame above a caller is one of its two recursive calls
IsCallOf(child, parent) ==
    /\ parent.at \in {"left", "right"}
    /\ child.c = [lvl |-> parent.c.lvl + 1,
                  idx |-> 2 * parent.c.idx + (IF parent.at = "left" THEN 0 ELSE 1)]
    /\ IsHalf(parent.accuracy, child.accuracy)
    /\ child.depth = parent.depth + 1

\* C2: a call accepts (counts the leaf, returns its quadrature, calls nothing)
\* iff depth = 16 or estimate < budget (strict, false for NaN); otherwise it
\* calls itself on the first half and then on the second half, each with the
\* budget accuracy * 0.5 and depth + 1, and returns the sum of the two results.
TransitionRule ==
    /\ [][ Entering =>
           LET t == Top
               e == Est(fn, curve, t.c)
               j == WaitingCaller
               v == Leaf(fn, curve, t.c) + LhsSum(j, Len(stack) - 1)
           IN IF t.depth = 16 \/ (e.k = "Fin" /\ e.v < t.accuracy)
              THEN /\ hist'.splits = hist.splits
                   /\ IF j = 0
                      THEN pc' = "done" /\ stack' = << >> /\ result'.len = v
                      ELSE /\ pc' = "running"
                           /\ Len(stack') = j + 1
                           /\ stack'[j].at = "right"
                           /\ stack'[j].lhs.len = v
                           /\ stack'[j + 1].at = "enter"
                           /\ \A i \in 1 .. (j - 1) : stack'[i] = stack[i]
              ELSE /\ hist'.splits = hist.splits + 1
                   /\ Len(stack') = Len(stack) + 1
                   /\ stack'[Len(stack)] = [t EXCEPT !.at = "left"]
                   /\ stack'[Len(stack')].at = "enter"
                   /\ \A i \in 1 .. (Len(stack) - 1) : stack'[i] = stack[i]
         ]_vars
    /\ [](\A i \in 1 .. (Len(stack) - 1) : IsCallOf(stack[i + 1], stack[i]))

\* a run that split the curve and one of its halves again
SplitTwice == Done /\ hist.splits >= 2 /\ hist.lo < hist.hi /\ ~hist.forced

\* C3 as stated: when a top-level call has returned, the estimates of its
\* accepted leaves sum to at most eps.
ErrorWithinEps == Done => (hist.err.k = "Fin" /\ hist.err.v <= eps)

\* C3 amended: the same, for runs in which the estimate of every accepted
\* leaf was below the leaf's budget (no leaf was accepted by the depth cap
\* alone).
ErrorWithinEpsUnforced ==
    (Done /\ ~hist.forced) => (hist.err.k = "Fin" /\ hist.err.v <= eps)

SeveralLeavesWithError ==
    Done /\ ~hist.forced /\ Leaves >= 2 /\ hist.err.k = "Fin" /\ hist.err.v > 0

Straight == curve.geom \in {"line", "point"}

OneLeaf ==
    /\ hist.splits = 0
    /\ count = c0 + 1
    /\ result.len = Leaf(fn, curve, Root)

\* C4 as stated: a collinear, evenly spaced cubic is accepted at depth 0 for
\* any accuracy: no subdivision, one leaf, the result is its leaf estimate.
StraightAccepted ==
    /\ Straight => hist.splits = 0
    /\ (Done /\ Straight) => OneLeaf

\* C4 amended: the same for a positive accuracy and p3 /= p0.
StraightAcceptedPositive ==
    /\ (curve.geom = "line" /\ eps > 0) => hist.splits = 0
    /\ (Done /\ curve.geom = "line" /\ eps > 0) => OneLeaf

StraightRunDone == Done /\ curve.geom = "line" /\ eps > 0 /\ Leaves = 1

\* C5: a call whose estimate is NaN at a depth below 16 subdivides; a curve
\* whose estimate is NaN on every segment (all four control points equal) is
\* subdivided on every branch down to depth 16, and the call returns the sum
\* of the 2^16 leaf estimates of depth 16.
NaNSubdivides ==
    /\ [][ (Entering /\ Est(fn, curve, Top.c).k = "NaN" /\ Top.depth < 16) =>
             /\ hist'.splits = hist.splits + 1
             /\ count' = count
             /\ Len(stack') = Len(stack) + 1
         ]_vars
    /\ [](\A i \in DOMAIN stack :
            curve.geom = "point" => Est(fn, curve, stack[i].c).k = "NaN")
    /\ []((Done /\ curve.geom = "point") =>
            /\ hist.lo = 16 /\ hist.hi = 16
            /\ Leaves = 65536
            /\ hist.splits = 65535
            /\ result = [len |-> 65536 * Leaf(fn, curve, [lvl |-> 16, idx |-> 0]),
                         n |-> 65536])

DegenerateRunDone == Done /\ curve.geom = "point" /\ hist.err.k = "NaN"

\* the budgets of the segments that are still to be evaluated
RECURSIVE Pending(_)
Pending(i) ==
    IF i = 0 THEN 0
    ELSE Pending(i - 1)
         + (IF stack[i].at = "enter" THEN stack[i].accuracy
            ELSE IF stack[i].at = "left" THEN stack[i + 1].accuracy
            ELSE 0)

Conserved ==
    /\ \A i \in DOMAIN stack : stack[i].accuracy * Pow(2, stack[i].depth) = eps
    /\ \A i \in 1 .. (Len(stack) - 1) : 2 * stack[i + 1].accuracy = stack[i].accuracy
    /\ pc = "running" => hist.budget + Pending(Len(stack)) = eps
    /\ Done => hist.budget = eps

\* C9 as stated: the two children of a split get budgets that sum to the
\* parent's, a call at depth d carries eps / 2^d, the budgets of the accepted
\* leaves and the pending segments always sum to eps, and at completion the
\* budgets of the accepted leaves sum to eps.
BudgetConserved == Conserved

\* C9 amended: the same for an accuracy that is a multiple of 2^16 units, so
\* that none of the at most 16 halvings is rounded.
BudgetConservedExact == (eps % 65536 = 0) => Conserved

HalvedExactly == Done /\ eps > 0 /\ eps % 65536 = 0 /\ Leaves >= 3

----------------------------------------------------------------------------
(* Properties of whole runs *)

Visited(r) == r.leaves \cup r.splits

SameLeaves ==
    /\ runs.left.leaves \cup runs.right.leaves = runs.whole.leaves
    /\ runs.left.len + runs.right.len = runs.whole.len

\* C6 as stated: the runs on the two halves with accuracy eps / 2 accept the
\* same leaves as the run on the curve with accuracy eps, and their lengths
\* add up to its length.
HalvesAdd == Done => SameLeaves

\* C6 amended: the same when the run on the curve subdivides the curve and
\* accepts every leaf because its estimate is below its budget.
HalvesAddWhenSplit ==
    (Done /\ runs.whole.splits /= {} /\ ~runs.whole.forced) => SameLeaves

HalvesCompared ==
    Done /\ runs.whole.n >= 3 /\ ~runs.whole.forced /\ runs.left.n /= runs.right.n

\* C7: with e1 <= eps, the run with e1 visits every segment the run with eps
\* visits, splits every segment it splits, and counts at least as many leaves.
FinerVisitsMore ==
    Done => /\ Visited(runs.whole) \subseteq Visited(runs.finer)
            /\ runs.whole.splits \subseteq runs.finer.splits
            /\ runs.finer.n >= runs.whole.n

FinerSplitMore == Done /\ runs.e1 < eps /\ runs.finer.n > runs.whole.n /\ runs.whole.n > 1

====
